---- MODULE Spec2Model ----
(***************************************************************************)
(* Contact-book service: the ownership-scoped contact repository           *)
(* (src/src/repository/contacts.py) behind its routes                      *)
(* (src/src/routes/contacts.py), over the contacts table                   *)
(* (src/src/database/models.py); and, further down, the accounts: the      *)
(* users repository (src/src/repository/users.py) behind the auth routes   *)
(* (src/src/routes/users.py), with the confirmation mail                   *)
(* (src/src/services/email.py).                                            *)
(*                                                                         *)
(* Strings are sequences of one-character strings, so that ILIKE can be    *)
(* computed character by character.  A date is a record [year, month, day].*)
(* The contacts table is a sequence of rows in insertion order.            *)
(***************************************************************************)
EXTENDS Integers, Sequences, FiniteSets, TLC

VARIABLES
    contacts,   \* the rows of table "contacts", in insertion order
    next_id,    \* the next value of the contacts.id primary-key sequence
    today,      \* datetime.now().date() as the handlers read it
    req,        \* the request handled last
    resp,       \* the response it was given
    users,      \* the rows of table "users", in insertion order
    tasks,      \* the send_email background tasks added by the handlers
    clock,      \* the time in seconds, as the issued tokens are stamped with it
    tokens,     \* the tokens the service has handed to its clients
    procs       \* the requests in progress in concurrent workers

vars == <<contacts, next_id, today, req, resp, users, tasks, clock, tokens, procs>>

(***************************************************************************)
(* Bounds of the model.                                                    *)
(***************************************************************************)
\* Contacts are created while next_id <= MaxId.
MaxId == 2
\* Longest string drawn as a searched field or as a search filter.
MaxStrLen == 2
\* The calendar years, FirstYear .. FirstYear + NumYears - 1, "today" is drawn from.
FirstYear == 2023
NumYears == 2

\* The identifiers get_current_user resolves bearer tokens to.
Users == {1, 2}

(***************************************************************************)
(* Python's None.  NoneStr is None where a string may stand (an Optional   *)
(* [str] field or query parameter); it is no string of characters.         *)
(***************************************************************************)
None == [none |-> TRUE]
NoneStr == <<"None">>

(***************************************************************************)
(* datetime.date                                                           *)
(***************************************************************************)
Date(y, m, d) == [year |-> y, month |-> m, day |-> d]

IsLeap(y) == (y % 4 = 0) /\ ((y % 100 # 0) \/ (y % 400 = 0))

DaysInMonth(y, m) ==
    IF m = 2 THEN (IF IsLeap(y) THEN 29 ELSE 28)
    ELSE IF m \in {4, 6, 9, 11} THEN 30 ELSE 31

\* date(y, m, d) is constructible; otherwise the constructor raises ValueError.
ValidDate(y, m, d) ==
    /\ m \in 1..12
    /\ d >= 1
    /\ d <= DaysInMonth(y, m)

RECURSIVE DaysBeforeMonth(_, _)
DaysBeforeMonth(y, m) ==
    IF m = 1 THEN 0 ELSE DaysBeforeMonth(y, m - 1) + DaysInMonth(y, m - 1)

DaysBeforeYear(y) ==
    365 * (y - 1) + ((y - 1) \div 4) - ((y - 1) \div 100) + ((y - 1) \div 400)

\* date.toordinal(): (a - b).days is Ordinal(a) - Ordinal(b).
Ordinal(dt) == DaysBeforeYear(dt.year) + DaysBeforeMonth(dt.year, dt.month) + dt.day

NextDay(dt) ==
    IF dt.day < DaysInMonth(dt.year, dt.month) THEN Date(dt.year, dt.month, dt.day + 1)
    ELSE IF dt.month < 12 THEN Date(dt.year, dt.month + 1, 1)
    ELSE Date(dt.year + 1, 1, 1)

\* date + timedelta(days=n), n >= 0
RECURSIVE AddDays(_, _)
AddDays(dt, n) == IF n = 0 THEN dt ELSE AddDays(NextDay(dt), n - 1)

(***************************************************************************)
(* Strings and PostgreSQL's ILIKE                                          *)
(***************************************************************************)
UpperChars == <<"A", "B", "C", "D", "E", "F", "G", "H", "I", "J", "K", "L", "M",
                "N", "O", "P", "Q", "R", "S", "T", "U", "V", "W", "X", "Y", "Z">>
LowerChars == <<"a", "b", "c", "d", "e", "f", "g", "h", "i", "j", "k", "l", "m",
                "n", "o", "p", "q", "r", "s", "t", "u", "v", "w", "x", "y", "z">>

LowerChar(c) ==
    IF \E i \in 1..Len(UpperChars) : UpperChars[i] = c
    THEN LowerChars[CHOOSE i \in 1..Len(UpperChars) : UpperChars[i] = c]
    ELSE c

Lower(s) == [i \in 1..Len(s) |-> LowerChar(s[i])]

\* s LIKE p: "%" matches any run of characters, "_" any one character.
\* (The escape character is left out: no string of the model holds one.)
RECURSIVE Like(_, _)
Like(s, p) ==
    IF p = <<>> THEN s = <<>>
    ELSE IF Head(p) = "%" THEN Like(s, Tail(p)) \/ (s # <<>> /\ Like(Tail(s), p))
    ELSE IF Head(p) = "_" THEN s # <<>> /\ Like(Tail(s), Tail(p))
    ELSE s # <<>> /\ Head(s) = Head(p) /\ Like(Tail(s), Tail(p))

\* Column.ilike(pattern): LIKE without regard to case.
ilike(column, pattern) == Like(Lower(column), Lower(pattern))

\* f"%{text}%"
Wrapped(text) == <<"%">> \o text \o <<"%">>

\* Python's truth value of an Optional[str]: None and "" are false.
Truthy(text) == text # NoneStr /\ text # <<>>

(***************************************************************************)
(* Rows of table "contacts" and the request body (ContactModel)            *)
(***************************************************************************)
Contact(id, body, owner_id) ==
    [id              |-> id,
     first_name      |-> body.first_name,
     last_name       |-> body.last_name,
     email           |-> body.email,
     phone_number    |-> body.phone_number,
     birth_date      |-> body.birth_date,
     additional_info |-> body.additional_info,
     owner_id        |-> owner_id]

ContactModel(first_name, last_name, email, phone_number, birth_date, additional_info) ==
    [first_name      |-> first_name,
     last_name       |-> last_name,
     email           |-> email,
     phone_number    |-> phone_number,
     birth_date      |-> birth_date,
     additional_info |-> additional_info]

\* Query.filter(...): the rows of db satisfying the filter are SelectSeq(db, ...).
\* Query.first(): the first of the rows, or None.
First(rows) == IF rows = <<>> THEN None ELSE Head(rows)

\* Query.offset(skip).limit(limit)
OffsetLimit(rows, skip, limit) ==
    SubSeq(rows, skip + 1, IF skip + limit < Len(rows) THEN skip + limit ELSE Len(rows))

\* db.commit() after attribute assignments on row: UPDATE ... WHERE id = row.id
Updated(db, row) == [k \in 1..Len(db) |-> IF db[k].id = row.id THEN row ELSE db[k]]

\* db.delete(row); db.commit(): DELETE ... WHERE id = row.id
Deleted(db, row) == SelectSeq(db, LAMBDA c : c.id # row.id)

(***************************************************************************)
(* src/src/repository/contacts.py.  user is the requesting user's id, db   *)
(* the contacts table.  A function that writes returns the new table       *)
(* beside its result.                                                      *)
(***************************************************************************)
\* Mutant: the listing forgets the owner filter.
get_contacts_of_anyone(skip, limit, user, db) == OffsetLimit(db, skip, limit)

get_contacts(skip, limit, user, db) ==
    OffsetLimit(SelectSeq(db, LAMBDA c : c.owner_id = user), skip, limit)

\* Mutant: the lookup filters by id alone.
get_contact_by_id_alone(contact_id, user, db) ==
    First(SelectSeq(db, LAMBDA c : c.id = contact_id))

get_contact(contact_id, user, db) ==
    First(SelectSeq(db, LAMBDA c : c.id = contact_id /\ c.owner_id = user))

\* Mutant: the insert is refused, as by a unique constraint on (owner_id, email),
\* when the owner has a contact with the email.
create_contact_unless_duplicate(body, user, db, id) ==
    IF \E i \in 1..Len(db) : db[i].owner_id = user /\ db[i].email = body.email
    THEN [db |-> db, result |-> None]
    ELSE [db |-> Append(db, Contact(id, body, user)), result |-> Contact(id, body, user)]

\* id is the value the primary-key sequence hands to the INSERT.
create_contact(body, user, db, id) ==
    LET contact == Contact(id, body, user)
    IN  [db |-> Append(db, contact), result |-> contact]

\* Mutant: partial-field semantics, an additional_info the body omits is kept.
AssignedKeepingOmitted(db_contact, body) ==
    [db_contact EXCEPT !.first_name = body.first_name,
                       !.last_name = body.last_name,
                       !.email = body.email,
                       !.phone_number = body.phone_number,
                       !.birth_date = body.birth_date,
                       !.additional_info = IF body.additional_info = NoneStr
                                           THEN db_contact.additional_info
                                           ELSE body.additional_info]

\* The six attribute assignments of update_contact.
Assigned(db_contact, body) ==
    [db_contact EXCEPT !.first_name = body.first_name,
                       !.last_name = body.last_name,
                       !.email = body.email,
                       !.phone_number = body.phone_number,
                       !.birth_date = body.birth_date,
                       !.additional_info = body.additional_info]

\* Mutant: the update finds its row by id alone.
update_contact_by_id_alone(contact_id, body, user, db) ==
    LET db_contact == First(SelectSeq(db, LAMBDA c : c.id = contact_id))
    IN  IF db_contact # None
        THEN [db |-> Updated(db, Assigned(db_contact, body)),
              result |-> Assigned(db_contact, body)]
        ELSE [db |-> db, result |-> None]

update_contact(contact_id, body, user, db) ==
    LET db_contact ==
            First(SelectSeq(db, LAMBDA c : c.id = contact_id /\ c.owner_id = user))
    IN  IF db_contact # None
        THEN [db |-> Updated(db, Assigned(db_contact, body)),
              result |-> Assigned(db_contact, body)]
        ELSE [db |-> db, result |-> None]

\* Mutant: the removal finds its row by id alone.
remove_contact_by_id_alone(contact_id, user, db) ==
    LET contact == First(SelectSeq(db, LAMBDA c : c.id = contact_id))
    IN  IF contact # None
        THEN [db |-> Deleted(db, contact), result |-> contact]
        ELSE [db |-> db, result |-> None]

\* Mutant: the removal returns the row and never deletes it.
remove_contact_without_delete(contact_id, user, db) ==
    LET contact ==
            First(SelectSeq(db, LAMBDA c : c.id = contact_id /\ c.owner_id = user))
    IN  [db |-> db, result |-> contact]

remove_contact(contact_id, user, db) ==
    LET contact ==
            First(SelectSeq(db, LAMBDA c : c.id = contact_id /\ c.owner_id = user))
    IN  IF contact # None
        THEN [db |-> Deleted(db, contact), result |-> contact]
        ELSE [db |-> db, result |-> None]

search_contact(first_name, last_name, email, user, db) ==
    LET q0 == SelectSeq(db, LAMBDA c : c.owner_id = user)
        q1 == IF Truthy(first_name)
              THEN SelectSeq(q0, LAMBDA c : ilike(c.first_name, Wrapped(first_name)))
              ELSE q0
        q2 == IF Truthy(last_name)
              THEN SelectSeq(q1, LAMBDA c : ilike(c.last_name, Wrapped(last_name)))
              ELSE q1
        q3 == IF Truthy(email)
              THEN SelectSeq(q2, LAMBDA c : ilike(c.email, Wrapped(email)))
              ELSE q2
    IN  q3

(***************************************************************************)
(* get_upcoming_birthdays(user, db), with now = datetime.now().date().     *)
(* The outcome is a list, or the ValueError a date constructor raises.     *)
(***************************************************************************)
Returned(rows) == [raised |-> FALSE, result |-> rows]
ValueError == [raised |-> TRUE, result |-> <<>>]

\* (datetime(year, birth_date.month, birth_date.day).date() - now).days in range(7)
ProbeInRange(year, birth_date, now) ==
    LET days == Ordinal(Date(year, birth_date.month, birth_date.day)) - Ordinal(now)
    IN  days >= 0 /\ days < 7

\* Mutant: the SQL filter forgets the contacts born in the next month.
PrefilterThisMonthOnly(c, user, now, next_month, seven_days_later) ==
    /\ c.owner_id = user
    /\ c.birth_date.month = now.month
    /\ c.birth_date.day >= now.day
    /\ c.birth_date.day < now.day + 7

\* The SQL filter of the query (lines 162-175), given the next-month number.
Prefilter(c, user, now, next_month, seven_days_later) ==
    /\ c.owner_id = user
    /\ \/ /\ c.birth_date.month = now.month
          /\ c.birth_date.day >= now.day
          /\ c.birth_date.day < now.day + 7
       \/ /\ c.birth_date.month = next_month
          /\ c.birth_date.day <= seven_days_later.day

\* The list comprehension's condition raises for c: the first probe date cannot be
\* built, or it is out of range and the second cannot be built ("or" evaluates its
\* right operand only when the left one is false).
ProbeRaises(c, now) ==
    \/ ~ValidDate(now.year, c.birth_date.month, c.birth_date.day)
    \/ /\ ~ProbeInRange(now.year, c.birth_date, now)
       /\ ~ValidDate(now.year + 1, c.birth_date.month, c.birth_date.day)

\* Mutant: only the birthday in the current year is probed.
ProbeAcceptsThisYear(c, now) == ProbeInRange(now.year, c.birth_date, now)

ProbeAccepts(c, now) ==
    \/ ProbeInRange(now.year, c.birth_date, now)
    \/ ProbeInRange(now.year + 1, c.birth_date, now)

get_upcoming_birthdays(user, db, now) ==
    LET seven_days_later == AddDays(now, 7)
        next_month == (now.month % 12) + 1
    IN  \* today.replace(month=today.month % 12 + 1) keeps today's day
        IF ~ValidDate(now.year, next_month, now.day) THEN ValueError
        ELSE LET upcoming_birthdays ==
                     SelectSeq(db, LAMBDA c : Prefilter(c, user, now, next_month,
                                                        seven_days_later))
             IN  IF \E i \in 1..Len(upcoming_birthdays) :
                        ProbeRaises(upcoming_birthdays[i], now)
                 THEN ValueError
                 ELSE Returned(SelectSeq(upcoming_birthdays,
                                         LAMBDA c : ProbeAccepts(c, now)))

(***************************************************************************)
(* Requests and responses of src/src/routes/contacts.py                    *)
(***************************************************************************)
NoRequest ==
    [op |-> "none", user |-> 0, contact_id |-> 0, body |-> None, skip |-> 0, limit |-> 0,
     first_name |-> NoneStr, last_name |-> NoneStr, email |-> NoneStr]

Response(status, detail, contact, list) ==
    [status |-> status, detail |-> detail, contact |-> contact, contacts |-> list]

NoResponse == Response(0, "", None, <<>>)

\* HTTPException(status_code, detail)
HTTPException(status, detail) == Response(status, detail, None, <<>>)

\* What the server answers when a handler raises anything but HTTPException.
InternalServerError == Response(500, "Internal Server Error", None, <<>>)

\* "if db_contact is None: raise HTTPException(404)", else the contact
ContactOr404(db_contact) ==
    IF db_contact = None THEN HTTPException(404, "Contact not found")
    ELSE Response(200, "", db_contact, <<>>)

\* The response of every handler but create to request r, over table db on date
\* now.  (update and delete also write the table; their response is the result
\* of their repository function.)
Answer(r, db, now) ==
    CASE r.op = "list" ->
           Response(200, "", None, get_contacts(r.skip, r.limit, r.user, db))
      [] r.op = "get" ->
           ContactOr404(get_contact(r.contact_id, r.user, db))
      [] r.op = "update" ->
           ContactOr404(update_contact(r.contact_id, r.body, r.user, db).result)
      [] r.op = "delete" ->
           ContactOr404(remove_contact(r.contact_id, r.user, db).result)
      [] r.op = "search" ->
           \* search_contact never returns None: the handler's 404 is dead code
           Response(200, "", None,
                    search_contact(r.first_name, r.last_name, r.email, r.user, db))
      [] r.op = "birthdays" ->
           LET db_contacts == get_upcoming_birthdays(r.user, db, now)
           IN  IF db_contacts.raised THEN InternalServerError
               ELSE Response(200, "", None, db_contacts.result)

\* Mutant: the duplicate check looks at every owner's contacts.
existing_contact_of_anyone(email, user, db) ==
    First(SelectSeq(db, LAMBDA c : c.email = email))

\* The duplicate check of the create route: the requester's contact with this email.
existing_contact(email, user, db) ==
    First(SelectSeq(db, LAMBDA c : c.email = email /\ c.owner_id = user))

\* POST /contacts/create
route_create_contact(user, body) ==
    /\ next_id <= MaxId
    /\ req' = [NoRequest EXCEPT !.op = "create", !.user = user, !.body = body]
    /\ IF existing_contact(body.email, user, contacts) # None
       THEN /\ resp' = HTTPException(400, "Contact with this email already exists.")
            /\ UNCHANGED <<contacts, next_id>>
       ELSE LET made == create_contact(body, user, contacts, next_id)
            IN  /\ contacts' = made.db
                /\ next_id' = next_id + 1
                /\ resp' = Response(201, "", made.result, <<>>)
    /\ UNCHANGED today
    /\ UNCHANGED <<users, tasks, clock, tokens, procs>>

\* GET /contacts/read_contacts
read_contacts(user, skip, limit) ==
    /\ req' = [NoRequest EXCEPT !.op = "list", !.user = user, !.skip = skip, !.limit = limit]
    /\ resp' = Answer(req', contacts, today)
    /\ UNCHANGED <<contacts, next_id, today>>
    /\ UNCHANGED <<users, tasks, clock, tokens, procs>>

\* GET /contacts/read_contact/{contact_id}
read_contact(user, contact_id) ==
    /\ req' = [NoRequest EXCEPT !.op = "get", !.user = user, !.contact_id = contact_id]
    /\ resp' = Answer(req', contacts, today)
    /\ UNCHANGED <<contacts, next_id, today>>
    /\ UNCHANGED <<users, tasks, clock, tokens, procs>>

\* PUT /contacts/update_contact/{contact_id}
route_update_contact(user, contact_id, body) ==
    /\ req' = [NoRequest EXCEPT !.op = "update", !.user = user,
                                !.contact_id = contact_id, !.body = body]
    /\ contacts' = update_contact(contact_id, body, user, contacts).db
    /\ resp' = Answer(req', contacts, today)
    /\ UNCHANGED <<next_id, today>>
    /\ UNCHANGED <<users, tasks, clock, tokens, procs>>

\* DELETE /contacts/delete_contact/{contact_id}
delete_contact(user, contact_id) ==
    /\ req' = [NoRequest EXCEPT !.op = "delete", !.user = user, !.contact_id = contact_id]
    /\ contacts' = remove_contact(contact_id, user, contacts).db
    /\ resp' = Answer(req', contacts, today)
    /\ UNCHANGED <<next_id, today>>
    /\ UNCHANGED <<users, tasks, clock, tokens, procs>>

\* GET /contacts/search
search_contacts(user, first_name, last_name, email) ==
    /\ req' = [NoRequest EXCEPT !.op = "search", !.user = user, !.first_name = first_name,
                                !.last_name = last_name, !.email = email]
    /\ resp' = Answer(req', contacts, today)
    /\ UNCHANGED <<contacts, next_id, today>>
    /\ UNCHANGED <<users, tasks, clock, tokens, procs>>

\* GET /contacts/birthdays
route_get_upcoming_birthdays(user) ==
    /\ req' = [NoRequest EXCEPT !.op = "birthdays", !.user = user]
    /\ resp' = Answer(req', contacts, today)
    /\ UNCHANGED <<contacts, next_id, today>>
    /\ UNCHANGED <<users, tasks, clock, tokens, procs>>

(***************************************************************************)
(* Spec: the contact routes, requests handled one at a time, by any user   *)
(* with any arguments of the sets below.                                   *)
(***************************************************************************)
Ann == <<"A", "n", "n">>
Bob == <<"b", "o", "b">>
Lee == <<"L", "e", "e">>
Ray == <<"R", "a", "y">>
MailA == <<"a", "@", "x">>
MailB == <<"b", "@", "x">>

Bodies ==
    { ContactModel(Ann, Lee, MailA, <<"1">>, Date(1990, 2, 26), NoneStr),
      ContactModel(Bob, Ray, MailB, <<"2">>, Date(1992, 2, 29), <<"h", "i">>),
      ContactModel(Bob, Lee, MailA, <<"3">>, Date(1990, 6, 9), <<>>) }

\* Every id a contact can have, and one no contact ever has.
ContactIds == 1..(MaxId + 1)
Skips == {0, 1}
Limits == {1, 10}
FirstNameFilters == {NoneStr, <<"B">>}
LastNameFilters == {<<>>, <<"e">>}
EmailFilters == {NoneStr, <<"@", "X">>}

\* The date of the requests: in the last week of February of a year that is not
\* a leap year, so that one body's birthday is within the week, one is on the
\* missing February 29 and one is months away.
SpecToday == Date(2023, 2, 25)

Init ==
    /\ contacts = <<>>
    /\ next_id = 1
    /\ today = SpecToday
    /\ req = NoRequest
    /\ resp = NoResponse
    /\ users = <<>>
    /\ tasks = <<>>
    /\ clock = 0
    /\ tokens = {}
    /\ procs = <<>>

Next ==
    \/ \E user \in Users, body \in Bodies : route_create_contact(user, body)
    \/ \E user \in Users, skip \in Skips, limit \in Limits : read_contacts(user, skip, limit)
    \/ \E user \in Users, contact_id \in ContactIds : read_contact(user, contact_id)
    \/ \E user \in Users, contact_id \in ContactIds, body \in Bodies :
           route_update_contact(user, contact_id, body)
    \/ \E user \in Users, contact_id \in ContactIds : delete_contact(user, contact_id)
    \/ \E user \in Users, first_name \in FirstNameFilters, last_name \in LastNameFilters,
          email \in EmailFilters : search_contacts(user, first_name, last_name, email)
    \/ \E user \in Users : route_get_upcoming_birthdays(user)

Spec == Init /\ [][Next]_vars

(***************************************************************************)
(* SpecSearch: search_contact over a table of two contacts whose searched  *)
(* fields are drawn from the strings over Alphabet, with filters drawn     *)
(* from the same strings.                                                  *)
(***************************************************************************)
\* A letter in both cases, another letter, and the two LIKE wildcards.
Alphabet == {"a", "A", "b", "_", "%"}

Strings(n) == UNION {[1..k -> Alphabet] : k \in 0..n}

SearchLastNames == {<<"b">>, <<"A", "b">>}
SearchEmails == {MailA, MailB}
SearchFirstNameFilters == Strings(MaxStrLen) \cup {NoneStr}
SearchLastNameFilters == {NoneStr, <<"a">>, <<"B">>}
SearchEmailFilters == {NoneStr, <<"A", "@">>}

InitSearch ==
    /\ \E first_name \in Strings(MaxStrLen), last_name \in SearchLastNames,
          email \in SearchEmails, owner1 \in Users :
           contacts =
               << Contact(1, ContactModel(first_name, last_name, email, <<"1">>,
                                          Date(1990, 2, 26), NoneStr), owner1),
                  Contact(2, ContactModel(<<"A", "b">>, <<"b">>, MailA, <<"2">>,
                                          Date(1990, 6, 9), NoneStr), 2) >>
    /\ next_id = 3
    /\ today = SpecToday
    /\ req = NoRequest
    /\ resp = NoResponse
    /\ users = <<>>
    /\ tasks = <<>>
    /\ clock = 0
    /\ tokens = {}
    /\ procs = <<>>

\* One search per drawn table: a second one would only overwrite req and resp.
NextSearch ==
    /\ req = NoRequest
    /\ \E user \in Users, first_name \in SearchFirstNameFilters,
          last_name \in SearchLastNameFilters, email \in SearchEmailFilters :
           search_contacts(user, first_name, last_name, email)

SpecSearch == InitSearch /\ [][NextSearch]_vars

(***************************************************************************)
(* SpecBirthday: get_upcoming_birthdays on every date of the years         *)
(* FirstYear .. FirstYear + NumYears - 1, over a table of two contacts:    *)
(* one of user 1, born on any day of the calendar, and one of user 2, born *)
(* on today's month and day.                                               *)
(***************************************************************************)
Years == FirstYear..(FirstYear + NumYears - 1)

\* A birth date on month m, day d: in a leap year, which has every month/day.
BornOn(m, d) == Date(1992, m, d)

\* Every month/day of the calendar, February 29 included.
MonthDays == {md \in (1..12) \X (1..31) : ValidDate(BornOn(md[1], md[2]).year, md[1], md[2])}

InitBirthday ==
    /\ \E y \in Years, t \in MonthDays, md \in MonthDays :
           /\ ValidDate(y, t[1], t[2])
           /\ today = Date(y, t[1], t[2])
           /\ contacts =
                  << Contact(1, ContactModel(Ann, Lee, MailA, <<"1">>,
                                             BornOn(md[1], md[2]), NoneStr), 1),
                     Contact(2, ContactModel(Bob, Ray, MailA, <<"2">>,
                                             BornOn(t[1], t[2]), NoneStr), 2) >>
    /\ next_id = 3
    /\ req = NoRequest
    /\ resp = NoResponse
    /\ users = <<>>
    /\ tasks = <<>>
    /\ clock = 0
    /\ tokens = {}
    /\ procs = <<>>

\* One request per drawn date and table.
NextBirthday ==
    /\ req = NoRequest
    /\ \E user \in Users : route_get_upcoming_birthdays(user)

SpecBirthday == InitBirthday /\ [][NextBirthday]_vars

(***************************************************************************)
(* Properties of the contact routes, checked under Spec.                   *)
(***************************************************************************)
\* The rows of db owned by user, in table order.
OwnedBy(db, user) == SelectSeq(db, LAMBDA c : c.owner_id = user)

\* A row of db has this id and this owner.
Owns(db, user, contact_id) ==
    \E i \in 1..Len(db) : db[i].id = contact_id /\ db[i].owner_id = user

\* db without its i-th row.
RemoveAt(db, i) == SubSeq(db, 1, i - 1) \o SubSeq(db, i + 1, Len(db))

\* A row of db has this id and another owner.
ForeignId(db, user, contact_id) ==
    \E i \in 1..Len(db) : db[i].id = contact_id /\ db[i].owner_id # user

GetRequest(user, contact_id) ==
    [NoRequest EXCEPT !.op = "get", !.user = user, !.contact_id = contact_id]

NotFound == HTTPException(404, "Contact not found")

\* C1: for every contact C of the table and every user B who does not own it,
\* get_contact(C.id, B) is None and read_contact answers 404; a read_contact that
\* was answered with a contact was answered with one the requester owns.
C1_GetHidesForeignContact ==
    /\ \A i \in 1..Len(contacts) : \A B \in Users \ {contacts[i].owner_id} :
           /\ get_contact(contacts[i].id, B, contacts) = None
           /\ Answer(GetRequest(B, contacts[i].id), contacts, today) = NotFound
    /\ (req.op = "get" /\ ForeignId(contacts, req.user, req.contact_id)) => resp = NotFound
    /\ (req.op = "get" /\ resp.status = 200) => resp.contact.owner_id = req.user

\* C1 witness: a read_contact of another user's existing contact was answered 404.
C1_Witness ==
    /\ req.op = "get"
    /\ ForeignId(contacts, req.user, req.contact_id)
    /\ resp.status = 404

\* C2: an update request whose id is no contact of the requester (no such id, or
\* another user's contact) is answered 404 with no contact, update_contact returns
\* None, and the table is left as it was.
C2_UpdateNotFoundIsNoOp ==
    [][ (req'.op = "update" /\ ~Owns(contacts, req'.user, req'.contact_id))
        => /\ update_contact(req'.contact_id, req'.body, req'.user, contacts).result = None
           /\ resp' = NotFound
           /\ contacts' = contacts ]_vars

\* C2 witness: an update of another user's existing contact was answered 404.
C2_Witness ==
    /\ req.op = "update"
    /\ ForeignId(contacts, req.user, req.contact_id)
    /\ resp.status = 404

\* C3: a delete request whose id is no contact of the requester is answered 404 and
\* removes nothing; one whose id is a contact of the requester is answered with
\* that contact, removes that row and no other, and a second remove_contact of the
\* same id by the same user returns None.
C3_RemoveExactlyOwn ==
    [][ req'.op = "delete"
        => IF Owns(contacts, req'.user, req'.contact_id)
           THEN /\ resp'.status = 200
                /\ resp'.contact.id = req'.contact_id
                /\ resp'.contact.owner_id = req'.user
                /\ \E i \in 1..Len(contacts) :
                       /\ contacts[i] = resp'.contact
                       /\ contacts' = RemoveAt(contacts, i)
                /\ remove_contact(req'.contact_id, req'.user, contacts') =
                       [db |-> contacts', result |-> None]
           ELSE /\ resp' = NotFound
                /\ contacts' = contacts ]_vars

\* C3 witness: a delete was answered with the removed contact and one other
\* contact is left in the table.
C3_Witness ==
    /\ req.op = "delete"
    /\ resp.status = 200
    /\ Len(contacts) = 1
    /\ contacts[1].id # req.contact_id

\* C4: whatever request a user makes, the contacts of every other user (which rows,
\* in which order, with which field values) are as before; a row that is new is
\* owned by the requester of a create; and no row's owner_id changes.
C4_OnlyOwnerWrites ==
    [][ /\ \A A \in Users \ {req'.user} : OwnedBy(contacts', A) = OwnedBy(contacts, A)
        /\ \A j \in 1..Len(contacts') :
               \/ \E i \in 1..Len(contacts) :
                      /\ contacts[i].id = contacts'[j].id
                      /\ contacts[i].owner_id = contacts'[j].owner_id
               \/ /\ req'.op = "create"
                  /\ contacts'[j].owner_id = req'.user
                  /\ \A i \in 1..Len(contacts) : contacts[i].id # contacts'[j].id ]_vars

\* C4 witness: an update succeeded while another user has a contact in the table.
C4_Witness ==
    /\ req.op = "update"
    /\ resp.status = 200
    /\ \E i \in 1..Len(contacts) : contacts[i].owner_id # req.user

\* The requests of a user that C5 speaks of: every get, update, delete, list,
\* search and birthdays request Spec can make.
ObservingRequests(user) ==
    {[NoRequest EXCEPT !.op = "list", !.user = user, !.skip = skip, !.limit = limit] :
         skip \in Skips, limit \in Limits}
    \cup {[NoRequest EXCEPT !.op = op, !.user = user, !.contact_id = contact_id] :
              op \in {"get", "delete"}, contact_id \in ContactIds}
    \cup {[NoRequest EXCEPT !.op = "update", !.user = user, !.contact_id = contact_id,
                            !.body = body] : contact_id \in ContactIds, body \in Bodies}
    \cup {[NoRequest EXCEPT !.op = "search", !.user = user, !.first_name = first_name,
                            !.last_name = last_name, !.email = email] :
              first_name \in FirstNameFilters, last_name \in LastNameFilters,
              email \in EmailFilters}
    \cup {[NoRequest EXCEPT !.op = "birthdays", !.user = user]}

\* C5: the response to every observing request of a user B over the table equals
\* the response to it over the table with every other user's row taken out (so two
\* tables with the same rows of B get the same responses); and a get, update or
\* delete of an id owned by another user gets the response of an id that no row
\* has, which is 404.
C5_ForeignContactsUnobservable ==
    \A B \in Users :
        /\ \A r \in ObservingRequests(B) :
               Answer(r, contacts, today) = Answer(r, OwnedBy(contacts, B), today)
        /\ \A r \in ObservingRequests(B) :
               (r.op \in {"get", "update", "delete"}
                    /\ ForeignId(contacts, B, r.contact_id))
               => /\ Answer(r, contacts, today) = NotFound
                  /\ Answer(r, contacts, today)
                         = Answer([r EXCEPT !.contact_id = next_id], contacts, today)

\* C5 witness: a delete of another user's existing contact was answered 404 while
\* the requester has a contact of their own.
C5_Witness ==
    /\ req.op = "delete"
    /\ ForeignId(contacts, req.user, req.contact_id)
    /\ resp = NotFound
    /\ OwnedBy(contacts, req.user) # <<>>

\* C9 (as claimed): no two rows with the same owner_id have the same email.
C9_EmailUniquePerOwner ==
    \A i, j \in 1..Len(contacts) :
        (i # j /\ contacts[i].owner_id = contacts[j].owner_id)
        => contacts[i].email # contacts[j].email

\* C10: a create request by a user who owns a contact with the body's email is
\* answered 400 "Contact with this email already exists." and adds nothing; any
\* other create request (also when other users own contacts with that email) is
\* answered 201 with the new contact, which has the body's fields, is owned by the
\* requester and is the one row added.
C10_CreateRejectsOwnDuplicate ==
    [][ req'.op = "create"
        => IF \E i \in 1..Len(contacts) :
                  /\ contacts[i].email = req'.body.email
                  /\ contacts[i].owner_id = req'.user
           THEN /\ resp' = HTTPException(400, "Contact with this email already exists.")
                /\ contacts' = contacts
                /\ next_id' = next_id
           ELSE /\ resp'.status = 201
                /\ resp'.contact = Contact(next_id, req'.body, req'.user)
                /\ contacts' = Append(contacts, resp'.contact) ]_vars

\* C10 witness: a create was answered 201 while another user owns a contact with
\* the same email.
C10_Witness ==
    /\ req.op = "create"
    /\ resp.status = 201
    /\ \E i \in 1..Len(contacts) :
           /\ contacts[i].email = req.body.email
           /\ contacts[i].owner_id # req.user

(***************************************************************************)
(* Properties of search_contact, checked under SpecSearch.                 *)
(***************************************************************************)
\* text occurs in field as a run of consecutive characters, case set aside.
ContainsIgnoringCase(field, text) ==
    \E i \in 1..(Len(field) - Len(text) + 1) :
        \A k \in 1..Len(text) : LowerChar(field[i + k - 1]) = LowerChar(text[k])

\* A filter that is None or "" restricts nothing.
MatchesFilter(field, filter) ==
    (filter # NoneStr /\ filter # <<>>) => ContainsIgnoringCase(field, filter)

\* C6 (as claimed): a search returns exactly the requester's contacts that contain
\* every supplied non-empty filter as a case-insensitive substring of its field.
C6_SearchIsSubstringMatch ==
    req.op = "search"
    => resp.contacts =
           SelectSeq(contacts, LAMBDA c :
               /\ c.owner_id = req.user
               /\ MatchesFilter(c.first_name, req.first_name)
               /\ MatchesFilter(c.last_name, req.last_name)
               /\ MatchesFilter(c.email, req.email))

(***************************************************************************)
(* Properties of get_upcoming_birthdays, checked under SpecBirthday.       *)
(***************************************************************************)
\* The birth month/day is the month/day of now + k days for some k in 0..6.
BirthdayWithinWeek(birth_date, now) ==
    \E k \in 0..6 :
        /\ birth_date.month = AddDays(now, k).month
        /\ birth_date.day = AddDays(now, k).day

\* C7 (as claimed): on every date, a birthdays request returns exactly the
\* requester's contacts whose birth month/day is that of today + k days for some
\* k in 0..6.
C7_BirthdaysExactWindow ==
    req.op = "birthdays"
    => /\ resp.status = 200
       /\ resp.contacts =
              SelectSeq(contacts, LAMBDA c :
                  c.owner_id = req.user /\ BirthdayWithinWeek(c.birth_date, today))

Returns(c) == \E j \in 1..Len(resp.contacts) : resp.contacts[j] = c

\* C8: on every December 25..31, a birthdays request returns a list that holds
\* every contact of the requester born in December on or after today's day, holds
\* the requester's January contacts born fewer than 7 days after today (January d
\* is 31 - today.day + d days after today), and holds none born in January 7 or
\* more days after today.
C8_YearEndWraparound ==
    (req.op = "birthdays" /\ today.month = 12 /\ today.day >= 25)
    => /\ resp.status = 200
       /\ \A i \in 1..Len(contacts) :
              LET c == contacts[i]
                  days_after == 31 - today.day + c.birth_date.day
              IN  c.owner_id = req.user
                  => /\ (c.birth_date.month = 12 /\ c.birth_date.day >= today.day)
                          => Returns(c)
                     /\ (c.birth_date.month = 1 /\ days_after < 7) => Returns(c)
                     /\ (c.birth_date.month = 1 /\ days_after >= 7) => ~Returns(c)

\* C8 witness: on a December 30 the request returned a contact born on January 2.
C8_Witness ==
    /\ req.op = "birthdays"
    /\ today.month = 12
    /\ today.day = 30
    /\ \E j \in 1..Len(resp.contacts) :
           /\ resp.contacts[j].birth_date.month = 1
           /\ resp.contacts[j].birth_date.day = 2
           /\ resp.contacts[j].owner_id = req.user

(***************************************************************************)
(* Properties of update_contact on an owned contact, checked under Spec.   *)
(***************************************************************************)
\* C11: an update request on a contact of the requester is answered 200 with the
\* contact, whose six mutable fields are the body's (an additional_info the body
\* omits is null) and whose id and owner_id are as before; the table keeps its
\* length, that row is replaced in place and every other row is unchanged.
C11_UpdateReplacesAllFields ==
    [][ (req'.op = "update" /\ Owns(contacts, req'.user, req'.contact_id))
        => /\ resp'.status = 200
           /\ resp'.contact = Contact(req'.contact_id, req'.body, req'.user)
           /\ req'.body.additional_info = NoneStr
                  => resp'.contact.additional_info = NoneStr
           /\ Len(contacts') = Len(contacts)
           /\ \A i \in 1..Len(contacts) :
                  IF contacts[i].id = req'.contact_id
                  THEN contacts'[i] = resp'.contact
                  ELSE contacts'[i] = contacts[i] ]_vars

\* C11 witness: an update with a body that omits additional_info was answered with
\* a contact whose additional_info is null, beside another contact in the table.
C11_Witness ==
    /\ req.op = "update"
    /\ resp.status = 200
    /\ req.body.additional_info = NoneStr
    /\ resp.contact.additional_info = NoneStr
    /\ Len(contacts) = 2

(***************************************************************************)
(* More properties of get_upcoming_birthdays, checked under SpecBirthday.  *)
(***************************************************************************)
BornOnFeb29(c) == c.birth_date.month = 2 /\ c.birth_date.day = 29

OwnsFeb29(db, user) ==
    \E i \in 1..Len(db) : db[i].owner_id = user /\ BornOnFeb29(db[i])

\* today.replace(month=today.month % 12 + 1) can be built: the request of a user
\* with no contact at all returns.
NextMonthHasToday == ValidDate(today.year, (today.month % 12) + 1, today.day)

\* C16 (as claimed, its first half): a birthdays request of a user who owns a
\* contact born on February 29 returns normally, in leap years and in others, on
\* every date on which the request of a user without contacts returns.
C16_Feb29ReturnsNormally ==
    (req.op = "birthdays" /\ OwnsFeb29(contacts, req.user) /\ NextMonthHasToday)
    => resp.status = 200

\* C19 (as claimed): on every calendar date, a birthdays request of a user who
\* owns no contact born on February 29 is answered with a list, which is empty
\* when the user owns no contact.
C19_ReturnsOnEveryDate ==
    (req.op = "birthdays" /\ ~OwnsFeb29(contacts, req.user))
    => /\ resp.status = 200
       /\ OwnedBy(contacts, req.user) = <<>> => resp.contacts = <<>>

\* The birthday of c in year y exists and falls 0..6 days after today.
BirthdayInYearWithinWeek(c, y) ==
    /\ ValidDate(y, c.birth_date.month, c.birth_date.day)
    /\ Ordinal(Date(y, c.birth_date.month, c.birth_date.day)) - Ordinal(today) \in 0..6

\* C20: whenever a birthdays request returns, its list is the requester's contacts,
\* all of them and in table order, whose birthday in the current year or in the
\* next falls 0..6 days after today: the SQL filter took none of these out.
C20_PrefilterLosesNothing ==
    (req.op = "birthdays" /\ resp.status = 200)
    => resp.contacts =
           SelectSeq(contacts, LAMBDA c :
               /\ c.owner_id = req.user
               /\ \/ BirthdayInYearWithinWeek(c, today.year)
                  \/ BirthdayInYearWithinWeek(c, today.year + 1))

\* C20 witness: in June, the request returned a contact born in July, which only
\* the next-month branch of the SQL filter lets through.
C20_Witness ==
    /\ req.op = "birthdays"
    /\ resp.status = 200
    /\ today.month = 6
    /\ \E j \in 1..Len(resp.contacts) : resp.contacts[j].birth_date.month = 7

(***************************************************************************)
(* The accounts of the service: table "users" (src/src/database/models.py),*)
(* its repository (src/src/repository/users.py), the auth routes           *)
(* (src/src/routes/users.py) and the confirmation mail                     *)
(* (src/src/services/email.py).                                            *)
(***************************************************************************)
\* The clock stops at MaxClock seconds.
MaxClock == 1
\* The handlers add background tasks while there are fewer than MaxTasks.
MaxTasks == 2

(***************************************************************************)
(* auth_service (src/services/auth.py), by its contract: passwords are     *)
(* hashed and verified against the hash; a token carries its scope, its    *)
(* subject (an email) and the second it was issued at, so that two tokens  *)
(* of one scope for one subject issued within the same second are equal;   *)
(* a token decodes only if the service signed it, with the scope asked for.*)
(* The handlers compare access and refresh tokens as wholes, and read only *)
(* the subject of an email token: email tokens are kept up to their        *)
(* subject.                                                                *)
(***************************************************************************)
get_password_hash(password) == <<"hash", password>>

verify_password(plain_password, hashed_password) ==
    hashed_password = get_password_hash(plain_password)

Token(scope, sub, iat) == [scope |-> scope, sub |-> sub, iat |-> iat]

create_access_token(sub, now) == Token("access_token", sub, now)

create_refresh_token(sub, now) == Token("refresh_token", sub, now)

create_email_token(sub) == [scope |-> "email_token", sub |-> sub]

\* A string that is no token of the service.
Garbage == Token("garbage", NoneStr, 0)

\* jwt.decode succeeds and the payload has the scope: signed is the set of tokens
\* the service issued.
Decodes(token, scope, signed) == token \in signed /\ token.scope = scope

(***************************************************************************)
(* src/src/repository/users.py.  db is the users table.                    *)
(***************************************************************************)
\* UserModel(username, email, password)
UserModel(username, email, password) ==
    [username |-> username, email |-> email, password |-> password]

\* Gravatar(email).get_image(): a URL computed from the email
Gravatar(email) == <<"gravatar", email>>

\* User(**body.model_dump(), avatar=avatar), with the column defaults and the id
\* the insert gives it: rows are never deleted, so the ids are 1, 2, ...
User(id, body, avatar) ==
    [id |-> id, username |-> body.username, email |-> body.email,
     password |-> body.password, avatar |-> avatar, refresh_token |-> None,
     confirmed |-> FALSE]

get_user_by_email(email, db) == First(SelectSeq(db, LAMBDA u : u.email = email))

\* Mutant: create_user inserts without looking for the email.
create_user_unchecked(body, db) ==
    LET new_user == User(Len(db) + 1, body, Gravatar(body.email))
    IN  [db |-> Append(db, new_user), result |-> new_user]

create_user(body, db) ==
    IF get_user_by_email(body.email, db) # None
    THEN [db |-> db, result |-> None]
    ELSE LET new_user == User(Len(db) + 1, body, Gravatar(body.email))
         IN  [db |-> Append(db, new_user), result |-> new_user]

update_token(user, token, db) == Updated(db, [user EXCEPT !.refresh_token = token])

confirmed_email(email, db) ==
    Updated(db, [get_user_by_email(email, db) EXCEPT !.confirmed = TRUE])

update_avatar(email, url, db) ==
    LET user == [get_user_by_email(email, db) EXCEPT !.avatar = url]
    IN  [db |-> Updated(db, user), result |-> user]

(***************************************************************************)
(* src/src/routes/users.py.  A handler is given the users table db and,    *)
(* as it uses them, the background tasks queue, the tokens issued so far   *)
(* and the time now; it returns what it leaves of them, and its response.  *)
(***************************************************************************)
AuthRequest(op, email, password, token) ==
    [op |-> op, email |-> email, password |-> password, token |-> token]

NoAuthRequest == AuthRequest("none", NoneStr, "", None)

Reply(status, detail, body) == [status |-> status, detail |-> detail, body |-> body]

NoReply == Reply(0, "", None)

\* HTTPException(status_code, detail) raised by an auth handler
AuthException(status, detail) == Reply(status, detail, None)

\* A handler raised anything but HTTPException.
AuthServerError == Reply(500, "Internal Server Error", None)

\* What a handler leaves: the table, the signed tokens, and its response
Handled(db, issued, reply) == [db |-> db, issued |-> issued, resp |-> reply]

\* What a handler that is given the background tasks leaves
Dispatched(db, queue, reply) == [db |-> db, queue |-> queue, resp |-> reply]

\* background_tasks.add_task(send_email, email, username, request.base_url)
Task(email, username) == [email |-> email, username |-> username, outcome |-> "pending"]

\* response_model=UserDb
UserDb(user) ==
    [id |-> user.id, username |-> user.username, email |-> user.email,
     avatar |-> user.avatar]

\* response_model=TokenModel
TokenModel(access_token, refresh_token) ==
    [access_token |-> access_token, refresh_token |-> refresh_token,
     token_type |-> "bearer"]

\* POST /auth/signup
signup(body, db, queue) ==
    IF get_user_by_email(body.email, db) # None
    THEN Dispatched(db, queue, AuthException(409, "Account already exists"))
    ELSE LET hashed == [body EXCEPT !.password = get_password_hash(body.password)]
             made == create_user(hashed, db)
             new_user == made.result
         IN  IF new_user = None
             THEN \* new_user.email: AttributeError
                  Dispatched(made.db, queue, AuthServerError)
             ELSE Dispatched(made.db,
                             Append(queue, Task(new_user.email, new_user.username)),
                                Reply(201, "", [user |-> UserDb(new_user),
                                             detail |-> "User successfully created"]))

\* Mutant: login does not look at the confirmed flag.
login_without_confirmation(username, password, db, issued, now) ==
    LET user == get_user_by_email(username, db)
    IN  IF user = None
        THEN Handled(db, issued, AuthException(401, "Invalid email"))
        ELSE IF ~verify_password(password, user.password)
        THEN Handled(db, issued, AuthException(401, "Invalid password"))
        ELSE LET access_token == create_access_token(user.email, now)
                 refresh_token == create_refresh_token(user.email, now)
             IN  Handled(update_token(user, refresh_token, db),
                         issued \cup {access_token, refresh_token},
                         Reply(200, "", TokenModel(access_token, refresh_token)))

\* POST /auth/login
login(username, password, db, issued, now) ==
    LET user == get_user_by_email(username, db)
    IN  IF user = None
        THEN Handled(db, issued, AuthException(401, "Invalid email"))
        ELSE IF ~user.confirmed
        THEN Handled(db, issued, AuthException(401, "Email not confirmed"))
        ELSE IF ~verify_password(password, user.password)
        THEN Handled(db, issued, AuthException(401, "Invalid password"))
        ELSE LET access_token == create_access_token(user.email, now)
                 refresh_token == create_refresh_token(user.email, now)
             IN  Handled(update_token(user, refresh_token, db),
                         issued \cup {access_token, refresh_token},
                         Reply(200, "", TokenModel(access_token, refresh_token)))

\* Mutant: a mismatch leaves the stored refresh token as it is.
refresh_token_keeping_stored(token, db, issued, now) ==
    IF ~Decodes(token, "refresh_token", issued)
    THEN Handled(db, issued, AuthException(401, "Could not validate credentials"))
    ELSE LET email == token.sub
             user == get_user_by_email(email, db)
         IN  IF user = None
             THEN Handled(db, issued, AuthServerError)
             ELSE IF user.refresh_token # token
             THEN Handled(db, issued, AuthException(401, "Invalid refresh token"))
             ELSE LET access_token == create_access_token(email, now)
                      refresh_token == create_refresh_token(email, now)
                  IN  Handled(update_token(user, refresh_token, db),
                              issued \cup {access_token, refresh_token},
                              Reply(200, "", TokenModel(access_token, refresh_token)))

\* GET /auth/refresh_token
route_refresh_token(token, db, issued, now) ==
    IF ~Decodes(token, "refresh_token", issued)
    THEN \* decode_refresh_token fails
         Handled(db, issued, AuthException(401, "Could not validate credentials"))
    ELSE LET email == token.sub
             user == get_user_by_email(email, db)
         IN  IF user = None
             THEN \* user.refresh_token: AttributeError
                  Handled(db, issued, AuthServerError)
             ELSE IF user.refresh_token # token
             THEN Handled(update_token(user, None, db), issued,
                          AuthException(401, "Invalid refresh token"))
             ELSE LET access_token == create_access_token(email, now)
                      refresh_token == create_refresh_token(email, now)
                  IN  Handled(update_token(user, refresh_token, db),
                              issued \cup {access_token, refresh_token},
                              Reply(200, "", TokenModel(access_token, refresh_token)))

\* Mutant: confirmation does not look at the confirmed flag and answers alike.
confirmed_email_again(token, db, issued) ==
    IF ~Decodes(token, "email_token", issued)
    THEN Handled(db, issued, AuthException(422, "Invalid token for email verification"))
    ELSE LET email == token.sub
             user == get_user_by_email(email, db)
         IN  IF user = None
             THEN Handled(db, issued, AuthException(400, "Verification error"))
             ELSE Handled(confirmed_email(email, db), issued,
                          Reply(200, "", [message |-> "Email confirmed"]))

\* GET /auth/confirmed_email/{token}
route_confirmed_email(token, db, issued) ==
    IF ~Decodes(token, "email_token", issued)
    THEN \* get_email_from_token fails
         Handled(db, issued, AuthException(422, "Invalid token for email verification"))
    ELSE LET email == token.sub
             user == get_user_by_email(email, db)
         IN  IF user = None
             THEN Handled(db, issued, AuthException(400, "Verification error"))
             ELSE IF user.confirmed
             THEN Handled(db, issued,
                          Reply(200, "", [message |-> "Your email is already confirmed"]))
             ELSE Handled(confirmed_email(email, db), issued,
                          Reply(200, "", [message |-> "Email confirmed"]))

\* POST /auth/request_email
request_email(email, db, queue) ==
    LET user == get_user_by_email(email, db)
    IN  IF user = None
        THEN \* user.confirmed: AttributeError
             Dispatched(db, queue, AuthServerError)
        ELSE IF user.confirmed
        THEN Dispatched(db, queue,
                     Reply(200, "", [message |-> "Your email is already confirmed"]))
        ELSE Dispatched(db, Append(queue, Task(user.email, user.username)),
                     Reply(200, "", [message |-> "Check your email for confirmation."]))

\* auth_service.get_current_user: the user of a decoded access token, or None
\* where it raises 401.
get_current_user(token, db, issued) ==
    IF Decodes(token, "access_token", issued) THEN get_user_by_email(token.sub, db)
    ELSE None

\* CloudinaryImage(...).build_url(...)
CloudinaryUrl(username) == <<"cloudinary", username>>

\* PATCH /users/avatar; uploaded is whether cloudinary.uploader.upload returned
update_avatar_user(token, uploaded, db, issued) ==
    LET current_user == get_current_user(token, db, issued)
    IN  IF current_user = None
        THEN Handled(db, issued, AuthException(401, "Could not validate credentials"))
        ELSE IF ~uploaded
        THEN Handled(db, issued, AuthServerError)
        ELSE LET made == update_avatar(current_user.email,
                                       CloudinaryUrl(current_user.username), db)
             IN  Handled(made.db, issued, Reply(200, "", UserDb(made.result)))

(***************************************************************************)
(* src/src/services/email.py: the background task.  outcome is what        *)
(* fm.send_message did: it returned ("sent"), or it raised ("failed"):     *)
(* ConnectionErrors, which send_email catches and prints, or another       *)
(* exception, which leaves the task; in both cases the response of the     *)
(* request was sent before and nothing is written.  Only a sent message    *)
(* hands its token to the user.                                            *)
(***************************************************************************)
Outcomes == {"sent", "failed"}

send_email(email, username, outcome, issued) ==
    IF outcome = "sent" THEN issued \cup {create_email_token(email)} ELSE issued

(***************************************************************************)
(* The steps of the accounts.                                              *)
(***************************************************************************)
post_signup(body) ==
    LET h == signup(body, users, tasks)
    IN  /\ Len(h.queue) <= MaxTasks
        /\ req' = AuthRequest("signup", body.email, body.password, None)
        /\ resp' = h.resp
        /\ users' = h.db
        /\ tasks' = h.queue
        /\ UNCHANGED <<tokens, clock, contacts, next_id, today, procs>>

post_login(username, password) ==
    LET h == login(username, password, users, tokens, clock)
    IN  /\ req' = AuthRequest("login", username, password, None)
        /\ resp' = h.resp
        /\ users' = h.db
        /\ tokens' = h.issued
        /\ UNCHANGED <<tasks, clock, contacts, next_id, today, procs>>

get_refresh_token(token) ==
    LET h == route_refresh_token(token, users, tokens, clock)
    IN  /\ req' = AuthRequest("refresh_token", NoneStr, "", token)
        /\ resp' = h.resp
        /\ users' = h.db
        /\ tokens' = h.issued
        /\ UNCHANGED <<tasks, clock, contacts, next_id, today, procs>>

get_confirmed_email(token) ==
    LET h == route_confirmed_email(token, users, tokens)
    IN  /\ req' = AuthRequest("confirmed_email", NoneStr, "", token)
        /\ resp' = h.resp
        /\ users' = h.db
        /\ UNCHANGED <<tokens, tasks, clock, contacts, next_id, today, procs>>

post_request_email(email) ==
    LET h == request_email(email, users, tasks)
    IN  /\ Len(h.queue) <= MaxTasks
        /\ req' = AuthRequest("request_email", email, "", None)
        /\ resp' = h.resp
        /\ users' = h.db
        /\ tasks' = h.queue
        /\ UNCHANGED <<tokens, clock, contacts, next_id, today, procs>>

patch_avatar(token, uploaded) ==
    LET h == update_avatar_user(token, uploaded, users, tokens)
    IN  /\ req' = AuthRequest("avatar", NoneStr, "", token)
        /\ resp' = h.resp
        /\ users' = h.db
        /\ UNCHANGED <<tokens, tasks, clock, contacts, next_id, today, procs>>

\* Mutant: a message that was not sent takes the account back.
run_send_email_rolling_back(i, outcome) ==
    /\ i \in 1..Len(tasks)
    /\ tasks[i].outcome = "pending"
    /\ tasks' = [tasks EXCEPT ![i].outcome = outcome]
    /\ tokens' = send_email(tasks[i].email, tasks[i].username, outcome, tokens)
    /\ users' = IF outcome = "sent" THEN users
                ELSE SelectSeq(users, LAMBDA u : u.email # tasks[i].email)
    /\ UNCHANGED <<req, resp, clock, contacts, next_id, today, procs>>

\* A background task runs, after the response of the request that added it.
run_send_email(i, outcome) ==
    /\ i \in 1..Len(tasks)
    /\ tasks[i].outcome = "pending"
    /\ tasks' = [tasks EXCEPT ![i].outcome = outcome]
    /\ tokens' = send_email(tasks[i].email, tasks[i].username, outcome, tokens)
    /\ UNCHANGED <<req, resp, users, clock, contacts, next_id, today, procs>>

\* A second passes.
Tick ==
    /\ clock < MaxClock
    /\ clock' = clock + 1
    /\ UNCHANGED <<req, resp, users, tasks, tokens, contacts, next_id, today, procs>>

(***************************************************************************)
(* SpecAuth: the accounts of two people, from an empty users table.        *)
(***************************************************************************)
SignupBodies == {UserModel("ann", MailA, "pw"), UserModel("bob", MailB, "pw")}
Passwords == {"pw", "no"}
\* What clients present where a token of this scope is asked for: the tokens of
\* the scope they were handed, or a string that is no token.
Presented(scope) == {token \in tokens : token.scope = scope} \cup {Garbage}

\* The bearer tokens of the avatar uploads: the access token of each user's
\* current session, which was issued with the stored refresh token, or a string
\* that is no token.
Bearers ==
    {create_access_token(users[i].email, users[i].refresh_token.iat) :
        i \in {k \in 1..Len(users) : users[k].refresh_token # None}} \cup {Garbage}

InitAuth ==
    /\ contacts = <<>>
    /\ next_id = 1
    /\ today = SpecToday
    /\ req = NoAuthRequest
    /\ resp = NoReply
    /\ users = <<>>
    /\ tasks = <<>>
    /\ clock = 0
    /\ tokens = {}
    /\ procs = <<>>

NextAuth ==
    \/ \E body \in SignupBodies : post_signup(body)
    \/ \E username \in {MailA, MailB}, password \in Passwords : post_login(username, password)
    \/ \E token \in Presented("refresh_token") : get_refresh_token(token)
    \/ \E token \in Presented("email_token") : get_confirmed_email(token)
    \/ \E email \in {MailA, MailB} : post_request_email(email)
    \/ \E token \in Bearers, uploaded \in BOOLEAN : patch_avatar(token, uploaded)
    \/ \E i \in 1..MaxTasks, outcome \in Outcomes : run_send_email(i, outcome)
    \/ Tick

SpecAuth == InitAuth /\ [][NextAuth]_vars

(***************************************************************************)
(* Properties of the accounts, checked under SpecAuth.                     *)
(***************************************************************************)
\* The user rows of db with this email.
Registered(db, email) == {i \in 1..Len(db) : db[i].email = email}

\* The row of the user with this email has these credentials.
GoodLogin(db, email, password) ==
    \E i \in Registered(db, email) :
        db[i].confirmed /\ db[i].password = get_password_hash(password)

\* The step handles a request of this kind: it sets req, and is neither a second
\* passing nor a background task running, which leave req as it was.
Handles(op) ==
    /\ req'.op = op
    /\ clock' = clock
    /\ SubSeq(tasks', 1, Len(tasks)) = tasks

\* C12: a login step answers 200 with a token pair only if the user exists, is
\* confirmed and the password is the user's; it answers 401 "Invalid email" when
\* there is no such user, 401 "Email not confirmed" when the user is unconfirmed,
\* 401 "Invalid password" when only the password is wrong, and every login that is
\* not answered 200 leaves the users table, stored refresh tokens included, as it
\* was.  So no login of an unconfirmed user succeeds.
C12_LoginOnlyConfirmedWithPassword ==
    [][ Handles("login") =>
          /\ resp'.status = 200 <=> GoodLogin(users, req'.email, req'.password)
          /\ resp'.status = 200 =>
                 /\ resp'.body.refresh_token.sub = req'.email
                 /\ resp'.body.access_token.sub = req'.email
          /\ resp'.status # 200 =>
                 /\ resp'.status = 401
                 /\ users' = users
                 /\ tokens' = tokens
                 /\ resp'.detail =
                        IF Registered(users, req'.email) = {} THEN "Invalid email"
                        ELSE IF \E i \in Registered(users, req'.email) : ~users[i].confirmed
                        THEN "Email not confirmed"
                        ELSE "Invalid password" ]_vars

\* C12 witness: a user who signed up and is not confirmed yet logged in with the
\* right password and was answered 401 "Email not confirmed".
C12_Witness ==
    /\ req.op = "login"
    /\ resp.status = 401
    /\ resp.detail = "Email not confirmed"
    /\ \E i \in Registered(users, req.email) :
           /\ ~users[i].confirmed
           /\ users[i].password = get_password_hash(req.password)
           /\ users[i].refresh_token = None

\* The token is one the service mailed for the email of user row u.
EmailTokenOf(token, u) ==
    /\ token \in tokens
    /\ token.scope = "email_token"
    /\ token.sub = u.email

\* C13: in every step, a new user row is made by signup and is unconfirmed; a
\* confirmed user stays confirmed; a user becomes confirmed only in a
\* confirmed_email step whose token was mailed for that user's email; and a
\* confirmed_email step with the token of a user who is confirmed already answers
\* "Your email is already confirmed" and changes no table, task or token.
C13_ConfirmedExactlyOnce ==
    [][ /\ Len(users') >= Len(users)
        /\ \A i \in 1..Len(users') :
               IF i > Len(users)
               THEN Handles("signup") /\ ~users'[i].confirmed
               ELSE /\ users'[i].email = users[i].email
                    /\ users[i].confirmed => users'[i].confirmed
                    /\ (~users[i].confirmed /\ users'[i].confirmed)
                           => Handles("confirmed_email") /\ EmailTokenOf(req'.token, users[i])
        /\ ( /\ Handles("confirmed_email")
             /\ \E i \in 1..Len(users) :
                    users[i].confirmed /\ EmailTokenOf(req'.token, users[i]) )
               => /\ resp' = Reply(200, "", [message |-> "Your email is already confirmed"])
                  /\ UNCHANGED <<users, tasks, tokens, contacts>> ]_vars

\* C13 witness: a confirmed user followed the mailed link once more and was told
\* that the email is already confirmed.
C13_Witness ==
    /\ req.op = "confirmed_email"
    /\ resp = Reply(200, "", [message |-> "Your email is already confirmed"])
    /\ \E i \in 1..Len(users) : users[i].confirmed /\ EmailTokenOf(req.token, users[i])

\* C14: a signup step with an email that has a user row answers 409 "Account
\* already exists", leaves the users table as it was and adds no background task;
\* and create_user, called with a body whose email has a row, returns None and
\* the table as it was.
C14_SignupOfRegisteredEmail ==
    [][ /\ (Handles("signup") /\ Registered(users, req'.email) # {})
               => /\ resp' = AuthException(409, "Account already exists")
                  /\ UNCHANGED <<users, tasks, tokens>>
        /\ \A body \in SignupBodies :
               Registered(users, body.email) # {}
                   => create_user(body, users) = [db |-> users, result |-> None] ]_vars

\* C14 witness: a signup was answered 409 for an email that has a row.
C14_Witness ==
    /\ req.op = "signup"
    /\ resp.status = 409
    /\ Registered(users, req.email) # {}
    /\ Len(tasks) = 1

\* The token is a refresh token the service issued for the email of user row u.
RefreshTokenOf(token, u) ==
    /\ token \in tokens
    /\ token.scope = "refresh_token"
    /\ token.sub = u.email

\* C15: in every step, a refresh_token request whose token decodes for a user and
\* is not the stored one is answered 401 "Invalid refresh token" and leaves the
\* stored token None; no refresh_token request is answered 200 for a user whose
\* stored token is None; and a stored token that is None stays None except in a
\* login of that user answered 200.
C15_MismatchInvalidates ==
    [][ \A i \in 1..Len(users) :
            /\ ( /\ Handles("refresh_token")
                 /\ RefreshTokenOf(req'.token, users[i])
                 /\ users[i].refresh_token # req'.token )
                   => /\ resp' = AuthException(401, "Invalid refresh token")
                      /\ users'[i].refresh_token = None
                      /\ tokens' = tokens
            /\ ( /\ Handles("refresh_token")
                 /\ req'.token.sub = users[i].email
                 /\ users[i].refresh_token = None )
                   => resp'.status = 401
            /\ (users[i].refresh_token = None /\ users'[i].refresh_token # None)
                   => /\ Handles("login")
                      /\ resp'.status = 200
                      /\ req'.email = users[i].email ]_vars

\* C15 witness: after a mismatch set the stored token to None, the refresh token
\* of the user's last login was presented and was refused.
C15_Witness ==
    /\ req.op = "refresh_token"
    /\ resp = AuthException(401, "Invalid refresh token")
    /\ req.token.iat = MaxClock
    /\ \E i \in 1..Len(users) :
           /\ RefreshTokenOf(req.token, users[i])
           /\ users[i].refresh_token = None

\* C17: a step in which a send_email task ends, whether the message was sent or
\* the sending failed, leaves the
\* users table, the row of the task's email in it, and the last request and the
\* response it was given as they were.
C17_SendEmailIsFireAndForget ==
    [][ \A i \in 1..Len(tasks) :
            (tasks[i].outcome = "pending" /\ tasks'[i].outcome \in Outcomes)
                => /\ users' = users
                   /\ Registered(users', tasks[i].email) # {}
                   /\ req' = req
                   /\ resp' = resp ]_vars

\* C17 witness: the message of a signup was not sent, and the signup's 201
\* response and the user row it made are there.
C17_Witness ==
    /\ req.op = "signup"
    /\ resp.status = 201
    /\ Len(tasks) = 1
    /\ tasks[1].email = req.email
    /\ tasks[1].outcome = "failed"
    /\ \E i \in Registered(users, req.email) :
           UserDb(users[i]) = resp.body.user /\ ~users[i].confirmed

(***************************************************************************)
(* SpecRace: two workers of the service, over one database, each handling  *)
(* one POST /contacts/create.  The handler reads the table for its         *)
(* duplicate check (routes/contacts.py line 36) and writes it in           *)
(* repository create_contact (line 69, db.commit()); nothing holds the     *)
(* table between the two, so the other worker's statements may come        *)
(* between them.                                                           *)
(***************************************************************************)
Workers == {1, 2}

\* A worker before its request, and after the duplicate check let it pass.
Idle == [pc |-> "idle", user |-> 0, body |-> None]
Checked(user, body) == [pc |-> "checked", user |-> user, body |-> body]
Done(p) == [procs[p] EXCEPT !.pc = "done"]

\* Worker p takes a request and runs the duplicate check.
create_contact_check(p, user, body) ==
    /\ procs[p].pc = "idle"
    /\ req' = [NoRequest EXCEPT !.op = "create", !.user = user, !.body = body]
    /\ IF existing_contact(body.email, user, contacts) # None
       THEN /\ resp' = HTTPException(400, "Contact with this email already exists.")
            /\ procs' = [procs EXCEPT ![p] = [Checked(user, body) EXCEPT !.pc = "refused"]]
       ELSE /\ resp' = resp
            /\ procs' = [procs EXCEPT ![p] = Checked(user, body)]
    /\ UNCHANGED <<contacts, next_id, today, users, tasks, clock, tokens>>

\* Worker p, past the check, inserts the contact and answers.
create_contact_insert(p) ==
    /\ procs[p].pc = "checked"
    /\ LET made == create_contact(procs[p].body, procs[p].user, contacts, next_id)
       IN  /\ contacts' = made.db
           /\ next_id' = next_id + 1
           /\ resp' = Response(201, "", made.result, <<>>)
    /\ req' = [NoRequest EXCEPT !.op = "create", !.user = procs[p].user,
                                !.body = procs[p].body]
    /\ procs' = [procs EXCEPT ![p] = Done(p)]
    /\ UNCHANGED <<today, users, tasks, clock, tokens>>

InitRace ==
    /\ contacts = <<>>
    /\ next_id = 1
    /\ today = SpecToday
    /\ req = NoRequest
    /\ resp = NoResponse
    /\ users = <<>>
    /\ tasks = <<>>
    /\ clock = 0
    /\ tokens = {}
    /\ procs = [p \in Workers |-> Idle]

NextRace ==
    \/ \E p \in Workers, user \in Users, body \in Bodies : create_contact_check(p, user, body)
    \/ \E p \in Workers : create_contact_insert(p)

SpecRace == InitRace /\ [][NextRace]_vars

\* Both workers' requests are of one owner and one email, and both passed the check.
BothPassedCheck ==
    /\ \A p \in Workers : procs[p].pc \in {"checked", "done"}
    /\ procs[1].user = procs[2].user
    /\ procs[1].body.email = procs[2].body.email

\* The contacts of the owner and email of worker p's request.
SameEmailContacts(p) ==
    {i \in 1..Len(contacts) :
        /\ contacts[i].owner_id = procs[p].user
        /\ contacts[i].email = procs[p].body.email}

\* C18: when two create requests of one owner with one email have both passed the
\* duplicate check, each of them that has finished has inserted its contact: with
\* both finished, the owner has two contacts with that email.
C18_CheckThenInsertRace ==
    BothPassedCheck =>
        Cardinality(SameEmailContacts(1)) = Cardinality({p \in Workers : procs[p].pc = "done"})

\* C18 witness: both requests passed the check and both inserted: the owner has
\* two contacts with the same email.
C18_Witness ==
    /\ BothPassedCheck
    /\ \A p \in Workers : procs[p].pc = "done"
    /\ Cardinality(SameEmailContacts(1)) = 2
    /\ resp.status = 201

C22_RequestEmailNeverFails ==
    [][ Handles("request_email") =>
          /\ users' = users
          /\ IF Registered(users, req'.email) = {}
             THEN /\ resp' = Reply(200, "", [message |-> "Check your email for confirmation."])
                  /\ tasks' = tasks
             ELSE IF \E i \in Registered(users, req'.email) : users[i].confirmed
             THEN /\ resp' = Reply(200, "", [message |-> "Your email is already confirmed"])
                  /\ tasks' = tasks
             ELSE /\ resp' = Reply(200, "", [message |-> "Check your email for confirmation."])
                  /\ Len(tasks') = Len(tasks) + 1
                  /\ tasks'[Len(tasks')].email = req'.email ]_vars

(***************************************************************************)
(* SpecSignupRace: two workers of the service, over one database, each     *)
(* handling one POST /auth/signup.  The handler reads the users table in   *)
(* get_user_by_email (routes/users.py line 42), create_user reads it again *)
(* (repository/users.py line 36) and inserts at db.commit() (line 47);     *)
(* these are three statements, and the other worker's statements may come  *)
(* between them.  The table has a unique constraint on email               *)
(* (models.py line 14): the commit of a second row with an email raises    *)
(* IntegrityError.                                                         *)
(***************************************************************************)
\* Worker p's signup, at place pc, answered with reply once it is done.
Signing(pc, body, reply) == [pc |-> pc, body |-> body, resp |-> reply]

NotSigning == Signing("idle", None, NoReply)

\* The handler's own look for the email: 409, or on to create_user.
signup_check(p, body) ==
    /\ procs[p].pc = "idle"
    /\ req' = AuthRequest("signup", body.email, body.password, None)
    /\ IF get_user_by_email(body.email, users) # None
       THEN /\ resp' = AuthException(409, "Account already exists")
            /\ procs' = [procs EXCEPT ![p] = Signing("done", body, resp')]
       ELSE /\ resp' = resp
            /\ procs' = [procs EXCEPT ![p] = Signing("checked", body, NoReply)]
    /\ UNCHANGED <<users, tasks, clock, tokens, contacts, next_id, today>>

\* create_user's look for the email: it returns None, and the handler's
\* new_user.email raises AttributeError; or on to the insert.
create_user_check(p) ==
    /\ procs[p].pc = "checked"
    /\ req' = AuthRequest("signup", procs[p].body.email, procs[p].body.password, None)
    /\ IF get_user_by_email(procs[p].body.email, users) # None
       THEN /\ resp' = AuthServerError
            /\ procs' = [procs EXCEPT ![p] = Signing("done", procs[p].body, resp')]
       ELSE /\ resp' = resp
            /\ procs' = [procs EXCEPT ![p].pc = "creating"]
    /\ UNCHANGED <<users, tasks, clock, tokens, contacts, next_id, today>>

\* db.add(new_user); db.commit(): IntegrityError when the email has a row, else
\* the row is there, the mail is added to the background tasks and the answer
\* is 201.
create_user_insert(p) ==
    /\ procs[p].pc = "creating"
    /\ req' = AuthRequest("signup", procs[p].body.email, procs[p].body.password, None)
    /\ IF get_user_by_email(procs[p].body.email, users) # None
       THEN /\ resp' = AuthServerError
            /\ UNCHANGED <<users, tasks>>
       ELSE LET hashed == [procs[p].body EXCEPT
                               !.password = get_password_hash(procs[p].body.password)]
                new_user == User(Len(users) + 1, hashed, Gravatar(hashed.email))
            IN  /\ users' = Append(users, new_user)
                /\ tasks' = Append(tasks, Task(new_user.email, new_user.username))
                /\ resp' = Reply(201, "", [user |-> UserDb(new_user),
                                           detail |-> "User successfully created"])
    /\ procs' = [procs EXCEPT ![p] = Signing("done", procs[p].body, resp')]
    /\ UNCHANGED <<clock, tokens, contacts, next_id, today>>

\* The bodies of the racing signups: two of them are of different people with
\* one email.
RaceBodies == SignupBodies \cup {UserModel("amy", MailA, "no")}

InitSignupRace ==
    /\ contacts = <<>>
    /\ next_id = 1
    /\ today = SpecToday
    /\ req = NoAuthRequest
    /\ resp = NoReply
    /\ users = <<>>
    /\ tasks = <<>>
    /\ clock = 0
    /\ tokens = {}
    /\ procs = [p \in Workers |-> NotSigning]

NextSignupRace ==
    \/ \E p \in Workers, body \in RaceBodies : signup_check(p, body)
    \/ \E p \in Workers : create_user_check(p)
    \/ \E p \in Workers : create_user_insert(p)

SpecSignupRace == InitSignupRace /\ [][NextSignupRace]_vars

\* C23 (as claimed): when two signups with one email are both done, whatever the
\* order of their statements was, the email has exactly one user row, one signup
\* was answered 201 and the other 409 "Account already exists".
C23_SignupRaceIsHandled ==
    ( /\ \A p \in Workers : procs[p].pc = "done"
      /\ procs[1].body.email = procs[2].body.email )
        => /\ Cardinality(Registered(users, procs[1].body.email)) = 1
           /\ \E p, q \in Workers :
                  /\ procs[p].resp.status = 201
                  /\ procs[q].resp = AuthException(409, "Account already exists")

(***************************************************************************)
(* SpecRefreshRace: two workers of the service, over one database, each    *)
(* handling one GET /auth/refresh_token of a user who logged in a second   *)
(* ago.  The                                                               *)
(* handler reads the user row and compares its refresh token with the      *)
(* presented one (routes/users.py lines 97-99); it writes the row later,   *)
(* in update_token (lines 100 and 105), and nothing holds the row between  *)
(* the two, so the other worker's statements may come between them.        *)
(***************************************************************************)
\* Worker p's refresh, at place pc, answered with reply once it is done.
Refreshing(pc, token, reply) == [pc |-> pc, token |-> token, resp |-> reply]

NotRefreshing == Refreshing("idle", None, NoReply)

\* The refresh token of the session Ann is logged in with at the start.
SessionToken == create_refresh_token(MailA, 0)

\* The row of a user who signed up with this body, confirmed the email and logged
\* in at second 0.
LoggedIn(id, body) ==
    [User(id, [body EXCEPT !.password = get_password_hash(body.password)],
          Gravatar(body.email))
        EXCEPT !.confirmed = TRUE, !.refresh_token = create_refresh_token(body.email, 0)]

\* decode_refresh_token, get_user_by_email and the comparison with the stored token
refresh_token_read(p, token) ==
    /\ procs[p].pc = "idle"
    /\ req' = AuthRequest("refresh_token", NoneStr, "", token)
    /\ IF ~Decodes(token, "refresh_token", tokens)
       THEN /\ resp' = AuthException(401, "Could not validate credentials")
            /\ procs' = [procs EXCEPT ![p] = Refreshing("done", token, resp')]
       ELSE IF get_user_by_email(token.sub, users) = None
       THEN /\ resp' = AuthServerError
            /\ procs' = [procs EXCEPT ![p] = Refreshing("done", token, resp')]
       ELSE /\ resp' = resp
            /\ procs' = [procs EXCEPT ![p] =
                   Refreshing(IF get_user_by_email(token.sub, users).refresh_token # token
                              THEN "mismatched" ELSE "matched",
                              token, NoReply)]
    /\ UNCHANGED <<users, tasks, clock, tokens, contacts, next_id, today>>

\* update_token and the answer: None and 401 after a mismatch, else a new pair
refresh_token_write(p) ==
    /\ procs[p].pc \in {"mismatched", "matched"}
    /\ req' = AuthRequest("refresh_token", NoneStr, "", procs[p].token)
    /\ LET email == procs[p].token.sub
           user == get_user_by_email(email, users)
           access_token == create_access_token(email, clock)
           refresh_token == create_refresh_token(email, clock)
       IN  IF procs[p].pc = "mismatched"
           THEN /\ users' = update_token(user, None, users)
                /\ tokens' = tokens
                /\ resp' = AuthException(401, "Invalid refresh token")
           ELSE /\ users' = update_token(user, refresh_token, users)
                /\ tokens' = tokens \cup {access_token, refresh_token}
                /\ resp' = Reply(200, "", TokenModel(access_token, refresh_token))
    /\ procs' = [procs EXCEPT ![p] = Refreshing("done", procs[p].token, resp')]
    /\ UNCHANGED <<tasks, clock, contacts, next_id, today>>

\* A second passes while the requests are in progress.
RaceTick ==
    /\ clock <= MaxClock
    /\ clock' = clock + 1
    /\ UNCHANGED <<req, resp, users, tasks, tokens, contacts, next_id, today, procs>>

\* Ann and Bob have signed up, confirmed their emails and logged in at second 0;
\* it is the next second.
InitRefreshRace ==
    /\ contacts = <<>>
    /\ next_id = 1
    /\ today = SpecToday
    /\ req = NoAuthRequest
    /\ resp = NoReply
    /\ users = << LoggedIn(1, UserModel("ann", MailA, "pw")),
                  LoggedIn(2, UserModel("bob", MailB, "pw")) >>
    /\ tasks = << [Task(MailA, "ann") EXCEPT !.outcome = "sent"],
                  [Task(MailB, "bob") EXCEPT !.outcome = "sent"] >>
    /\ clock = 1
    /\ tokens = UNION { {create_email_token(email), create_access_token(email, 0),
                         create_refresh_token(email, 0)} : email \in {MailA, MailB} }
    /\ procs = [p \in Workers |-> NotRefreshing]

NextRefreshRace ==
    \/ \E p \in Workers, token \in Presented("refresh_token") : refresh_token_read(p, token)
    \/ \E p \in Workers : refresh_token_write(p)
    \/ RaceTick

SpecRefreshRace == InitRefreshRace /\ [][NextRefreshRace]_vars

\* C24 (as claimed): when two refresh requests presenting the token stored at the
\* start are both done, whatever the order of their statements was, at most one
\* of them was answered with a token pair, and the stored refresh token is the
\* one returned to it.
C24_RefreshRaceOneWinner ==
    (\A p \in Workers : procs[p].pc = "done" /\ procs[p].token = SessionToken)
        => /\ Cardinality({p \in Workers : procs[p].resp.status = 200}) <= 1
           /\ \A p \in Workers :
                  procs[p].resp.status = 200
                      => users[1].refresh_token = procs[p].resp.body.refresh_token

====
